---- MODULE Spec2Model ----
(***************************************************************************)
(* Model of llvm-side-by-side (src/main.go): a driver that runs            *)
(* <toolchain>/bin/llc of two toolchains on one bitcode file, scrapes      *)
(* three statistics from each run's standard error and prints one          *)
(* tab-separated comparison record.                                        *)
(*                                                                         *)
(* Text is a sequence of atoms.  An atom is one character ("0".."9", ".",  *)
(* " ", "x", "/", "\t", "\n") or one of the fixed literals the three       *)
(* regular expressions look for:                                           *)
(*   "A"  " asm-printer" [^N]+ "Number of machine instrs printed"          *)
(*   "P"  " pei" [^N]+ "Number of bytes used for stack in all functions"   *)
(*   "T"  "Total Execution Time: "                                         *)
(*   "S"  " seconds ("                                                     *)
(*   "W"  " wall clock)"                                                   *)
(*   "R"  "Running test: "                                                 *)
(* A float64 is the pair <<n, k>> standing for n / 10^k with no trailing   *)
(* fractional zero (binary rounding is not modelled).                      *)
(***************************************************************************)
EXTENDS Integers, Sequences, FiniteSets, TLC

(***************************************************************************)
(* Bounds of the model.                                                    *)
(***************************************************************************)
\* lines of diagnostic text handed to parseTestOutput in SpecParse
MaxLines == 3
\* chunks a pipe holds before a write to it blocks
PipeCap == 2
\* chunks the child writes to its standard output in one run
MaxOut == 2
\* lines the child writes to its standard error in one run
MaxErr == 3

\* largest int of the Go release the program is written for (os.Error,
\* strconv.Atof64: before Go 1.1 int is 32 bits on every platform)
MaxInt == 2147483647

Digits == {"0", "1", "2", "3", "4", "5", "6", "7", "8", "9"}

DigitVal(c) ==
  CASE c = "0" -> 0 [] c = "1" -> 1 [] c = "2" -> 2 [] c = "3" -> 3
    [] c = "4" -> 4 [] c = "5" -> 5 [] c = "6" -> 6 [] c = "7" -> 7
    [] c = "8" -> 8 [] c = "9" -> 9

DigitChar(d) ==
  CASE d = 0 -> "0" [] d = 1 -> "1" [] d = 2 -> "2" [] d = 3 -> "3"
    [] d = 4 -> "4" [] d = 5 -> "5" [] d = 6 -> "6" [] d = 7 -> "7"
    [] d = 8 -> "8" [] d = 9 -> "9"

Min(S) == CHOOSE x \in S : \A y \in S : x <= y

(***************************************************************************)
(* strconv.Atoi on a string of [0-9]+: the value, or on overflow of int    *)
(* the largest int together with an error (ERANGE).                        *)
(***************************************************************************)
RECURSIVE AtoiAcc(_, _)
AtoiAcc(s, n) ==
  IF s = <<>> THEN [val |-> n, err |-> FALSE]
  ELSE LET d == DigitVal(Head(s))
       IN  IF n > (MaxInt - d) \div 10
           THEN [val |-> MaxInt, err |-> TRUE]
           ELSE AtoiAcc(Tail(s), n * 10 + d)

Atoi(s) ==
  IF s = <<>> \/ \E i \in 1..Len(s) : s[i] \notin Digits
  THEN [val |-> 0, err |-> TRUE]
  ELSE AtoiAcc(s, 0)

(***************************************************************************)
(* strconv.Atof64 on a string of [0-9.]+: a second "." or no digit at all  *)
(* is a syntax error and the value returned with it is 0.                  *)
(***************************************************************************)
Zero == <<0, 0>>

RECURSIVE Norm(_, _)
Norm(n, k) ==
  IF n = 0 THEN Zero
  ELSE IF k > 0 /\ n % 10 = 0 THEN Norm(n \div 10, k - 1)
  ELSE <<n, k>>

RECURSIVE AtofAcc(_, _, _, _)
AtofAcc(s, n, k, sawdot) ==
  IF s = <<>> THEN Norm(n, k)
  ELSE IF Head(s) = "." THEN AtofAcc(Tail(s), n, k, TRUE)
  ELSE AtofAcc(Tail(s), n * 10 + DigitVal(Head(s)),
               IF sawdot THEN k + 1 ELSE k, sawdot)

Atof64(s) ==
  LET dots == {i \in 1..Len(s) : s[i] = "."}
      digs == {i \in 1..Len(s) : s[i] \in Digits}
  IN  IF Cardinality(dots) > 1 \/ digs = {} \/ dots \cup digs # 1..Len(s)
      THEN [val |-> Zero, err |-> TRUE]
      ELSE [val |-> AtofAcc(s, 0, 0, FALSE), err |-> FALSE]

(***************************************************************************)
(* The three regular expressions.  FindStringSubmatch returns <<>> when    *)
(* the line does not match, else the whole match followed by the captures  *)
(* of the leftmost match.                                                  *)
(***************************************************************************)
AllIn(line, i, j, S) == \A k \in i..j : line[k] \in S

\* ([0-9]+) followed by the literal `tag`
FindIntStat(line, tag) ==
  LET starts == {i \in 1..Len(line) :
                   \E j \in i..(Len(line) - 1) :
                      AllIn(line, i, j, Digits) /\ line[j + 1] = tag}
  IN  IF starts = {} THEN <<>>
      ELSE LET i == Min(starts)
               j == CHOOSE j \in i..(Len(line) - 1) :
                      AllIn(line, i, j, Digits) /\ line[j + 1] = tag
           IN  <<SubSeq(line, i, j + 1), SubSeq(line, i, j)>>

asmInstrsRegexp(line) == FindIntStat(line, "A")

stackSpaceRegexp(line) == FindIntStat(line, "P")

NumChars == Digits \cup {"."}

\* Total Execution Time: ([0-9.]+) seconds \(([0-9.]+) wall clock\)
execTimeRegexp(line) ==
  LET n == Len(line)
      ends(i) == {jk \in ((i + 1)..n) \X ((i + 3)..n) :
                    /\ jk[1] + 2 <= jk[2] /\ jk[2] < n
                    /\ AllIn(line, i + 1, jk[1], NumChars)
                    /\ line[jk[1] + 1] = "S"
                    /\ AllIn(line, jk[1] + 2, jk[2], NumChars)
                    /\ line[jk[2] + 1] = "W"}
      starts == {i \in 1..n : line[i] = "T" /\ ends(i) # {}}
  IN  IF starts = {} THEN <<>>
      ELSE LET i == Min(starts)
               jk == CHOOSE e \in ends(i) : TRUE
           IN  <<SubSeq(line, i, jk[2] + 1),
                 SubSeq(line, i + 1, jk[1]),
                 SubSeq(line, jk[1] + 2, jk[2])>>

(***************************************************************************)
(* strings.Split(s, "\n") and strings.TrimSpace.                           *)
(***************************************************************************)
RECURSIVE SplitAcc(_, _, _)
SplitAcc(s, cur, acc) ==
  IF s = <<>> THEN Append(acc, cur)
  ELSE IF Head(s) = "\n" THEN SplitAcc(Tail(s), <<>>, Append(acc, cur))
  ELSE SplitAcc(Tail(s), Append(cur, Head(s)), acc)

Split(s) == SplitAcc(s, <<>>, <<>>)

Space == {" ", "\t", "\n"}

RECURSIVE TrimLeft(_)
TrimLeft(s) ==
  IF s # <<>> /\ Head(s) \in Space THEN TrimLeft(Tail(s)) ELSE s

RECURSIVE TrimRight(_)
TrimRight(s) ==
  IF s # <<>> /\ s[Len(s)] \in Space
  THEN TrimRight(SubSeq(s, 1, Len(s) - 1)) ELSE s

TrimSpace(s) == TrimRight(TrimLeft(s))

(***************************************************************************)
(* type Stats and new(Stats).                                              *)
(***************************************************************************)
NewStats ==
  [AsmInstrs |-> 0, StackSpace |-> 0, Seconds |-> Zero, WallSeconds |-> Zero]

(***************************************************************************)
(* One iteration of the loop of parseTestOutput.  Each `continue` of the   *)
(* source ends the iteration with the record as assigned so far: the       *)
(* assignment  res.F, err = strconv.AtoX(..)  stores the returned value    *)
(* before err is looked at.                                                *)
(***************************************************************************)
\* the two captures taken in the wrong order
ScanExecTimeSwapped(res, line) ==
  LET ss == execTimeRegexp(line)
  IN  IF ss = <<>> THEN res
      ELSE IF Len(ss) # 3 THEN res
      ELSE LET s  == Atof64(ss[3])
               r1 == [res EXCEPT !.Seconds = s.val]
           IN  IF s.err THEN r1
               ELSE [r1 EXCEPT !.WallSeconds = Atof64(ss[2]).val]

ScanExecTime(res, line) ==
  LET ss == execTimeRegexp(line)
  IN  IF ss = <<>> THEN res
      ELSE IF Len(ss) # 3 THEN res
      ELSE LET s  == Atof64(ss[2])
               r1 == [res EXCEPT !.Seconds = s.val]
           IN  IF s.err THEN r1
               ELSE [r1 EXCEPT !.WallSeconds = Atof64(ss[3]).val]

ScanStackSpace(res, line) ==
  LET ss == stackSpaceRegexp(line)
  IN  IF ss = <<>> THEN ScanExecTime(res, line)
      ELSE IF Len(ss) # 2 THEN res
      ELSE LET a  == Atoi(ss[2])
               r1 == [res EXCEPT !.StackSpace = a.val]
           IN  IF a.err THEN r1 ELSE ScanExecTime(r1, line)

\* a value already found is kept: the first match wins
ScanAsmInstrsFirst(res, line) ==
  LET ss == asmInstrsRegexp(line)
  IN  IF ss = <<>> \/ res.AsmInstrs # 0 THEN ScanStackSpace(res, line)
      ELSE IF Len(ss) # 2 THEN res
      ELSE LET a  == Atoi(ss[2])
               r1 == [res EXCEPT !.AsmInstrs = a.val]
           IN  IF a.err THEN r1 ELSE ScanStackSpace(r1, line)

\* the three tests chained with else: a line that gave AsmInstrs is done
ScanAsmInstrsElse(res, line) ==
  LET ss == asmInstrsRegexp(line)
  IN  IF ss = <<>> THEN ScanStackSpace(res, line)
      ELSE IF Len(ss) # 2 THEN res
      ELSE [res EXCEPT !.AsmInstrs = Atoi(ss[2]).val]

ScanAsmInstrs(res, line) ==
  LET ss == asmInstrsRegexp(line)
  IN  IF ss = <<>> THEN ScanStackSpace(res, line)
      ELSE IF Len(ss) # 2 THEN res
      ELSE LET a  == Atoi(ss[2])
               r1 == [res EXCEPT !.AsmInstrs = a.val]
           IN  IF a.err THEN r1 ELSE ScanStackSpace(r1, line)

ParseLine(res, rawline) == ScanAsmInstrs(res, TrimSpace(rawline))

RECURSIVE ParseLines(_, _)
ParseLines(res, lines) ==
  IF lines = <<>> THEN res
  ELSE ParseLines(ParseLine(res, Head(lines)), Tail(lines))

parseTestOutput(stderr) == ParseLines(NewStats, Split(stderr))

(***************************************************************************)
(* Formatting: %d of an int, %v of a float64 (the shortest decimal; the    *)
(* exponent form of very small and very large values lies outside the      *)
(* values the bounded inputs produce), and path.Base.                      *)
(***************************************************************************)
RECURSIVE FormatInt(_)
FormatInt(n) ==
  IF n < 10 THEN <<DigitChar(n)>>
  ELSE Append(FormatInt(n \div 10), DigitChar(n % 10))

RECURSIVE PadLeft(_, _)
PadLeft(s, w) == IF Len(s) >= w THEN s ELSE PadLeft(<<"0">> \o s, w)

FormatFloat(f) ==
  IF f[2] = 0 THEN FormatInt(f[1])
  ELSE LET ds == PadLeft(FormatInt(f[1]), f[2] + 1)
           ip == Len(ds) - f[2]
       IN  SubSeq(ds, 1, ip) \o <<".">> \o SubSeq(ds, ip + 1, Len(ds))

RECURSIVE TrimSlashes(_)
TrimSlashes(p) ==
  IF p # <<>> /\ p[Len(p)] = "/"
  THEN TrimSlashes(SubSeq(p, 1, Len(p) - 1)) ELSE p

Base(p) ==
  IF p = <<>> THEN <<".">>
  ELSE LET q  == TrimSlashes(p)
           sl == {i \in 1..Len(q) : q[i] = "/"}
           i  == IF sl = {} THEN 0
                 ELSE CHOOSE m \in sl : \A y \in sl : y <= m
           b  == SubSeq(q, i + 1, Len(q))
       IN  IF b = <<>> THEN <<"/">> ELSE b

\* the two records printed in the wrong order
printStatsSwapped(testPath, st) ==
  Base(testPath)
    \o <<"\t">> \o FormatInt(st[2].AsmInstrs)
    \o <<"\t">> \o FormatInt(st[2].StackSpace)
    \o <<"\t">> \o FormatFloat(st[2].Seconds)
    \o <<"\t">> \o FormatFloat(st[2].WallSeconds)
    \o <<"\t">> \o FormatInt(st[1].AsmInstrs)
    \o <<"\t">> \o FormatInt(st[1].StackSpace)
    \o <<"\t">> \o FormatFloat(st[1].Seconds)
    \o <<"\t">> \o FormatFloat(st[1].WallSeconds)
    \o <<"\n">>

\* the text printStats writes for the two records of one runBoth
printStats(testPath, st) ==
  Base(testPath)
    \o <<"\t">> \o FormatInt(st[1].AsmInstrs)
    \o <<"\t">> \o FormatInt(st[1].StackSpace)
    \o <<"\t">> \o FormatFloat(st[1].Seconds)
    \o <<"\t">> \o FormatFloat(st[1].WallSeconds)
    \o <<"\t">> \o FormatInt(st[2].AsmInstrs)
    \o <<"\t">> \o FormatInt(st[2].StackSpace)
    \o <<"\t">> \o FormatFloat(st[2].Seconds)
    \o <<"\t">> \o FormatFloat(st[2].WallSeconds)
    \o <<"\n">>

(***************************************************************************)
(* State.                                                                  *)
(***************************************************************************)
VARIABLES
  \* parseTestOutput, run on its own (SpecParse)
  ppc,        \* "call", "loop" or "returned"
  text,       \* the argument stderr
  lines,      \* strings.Split(stderr, "\n")
  idx,        \* index in lines of the line the loop handles next
  res,        \* *res
  \* the program (Spec)
  flags,      \* *t1, *t2, *test after flag.Parse
  pc,         \* position of main
  run,        \* number of the runTest call under way, 1..4 (0: none yet)
  rt,         \* position of runTest
  child,      \* per run, the state of the child process cmd.Start made
  childOp,    \* the write call the running child is in, or NoOp
  exitStatus, \* exit status of the last child that exited
  outPipe,    \* chunks in the child's stdout pipe
  errPipe,    \* lines in the child's stderr pipe
  outCount,   \* chunks the child wrote to stdout in this run
  errCount,   \* lines the child wrote to stderr in this run
  stderrData, \* what ioutil.ReadAll(errPipe) has read so far
  stats,      \* runBoth's result array
  stdout,     \* everything the program wrote to os.Stdout
  errlog,     \* what the program wrote to os.Stderr
  exitCode,   \* the program's exit status, -1 while it runs
  \* history
  spawned,    \* toolchain of every child started, in order
  fileReads,  \* calls of ioutil.ReadFile
  eof,        \* streams of this run's child read to end-of-stream
  waited,     \* cmd.Wait was called in this run
  readFailed, \* a ReadAll of this run returned an error
  failedRun,  \* the run whose runTest returned an error (0: none)
  overlap,    \* a child was started while an earlier one was running
  passText,   \* run and stderr of the runTest calls of this runBoth
  firstAsm    \* stats[0].AsmInstrs of the runBoth result main discarded

pvars == <<ppc, text, lines, idx, res>>

mvars == <<flags, pc, run, rt, child, childOp, exitStatus, outPipe, errPipe,
           outCount, errCount, stderrData, stats, stdout, errlog, exitCode,
           spawned, fileReads, eof, waited, readFailed, failedRun, overlap,
           passText, firstAsm>>

vars == <<pvars, mvars>>

Nil == "nil"

\* the child is in no write call
NoOp == [fd |-> "none", data |-> <<>>]

(***************************************************************************)
(* Inputs.                                                                 *)
(***************************************************************************)
Big == <<"9", "9", "9", "9", "9", "9", "9", "9", "9", "9">>

\* diagnostic lines parseTestOutput is tried on
SampleLines ==
  { <<"1", "2", "A">>,
    <<"7", "A">>,
    Big \o <<"A">>,
    <<"5", "6", "P">>,
    <<"3", "P">>,
    Big \o <<"P">>,
    <<"T", "0", ".", "5", "S", "1", ".", "5", "W">>,
    <<"T", "2", "S", "3", "W">>,
    <<"T", "1", ".", "2", ".", "3", "S", "4", "W">>,
    <<"T", "4", "S", ".", "W">>,
    <<"x", "x">>,
    Big \o <<"A", "8", "P">>,
    <<" ", "4", "A", "9", "P", "x", "T", "6", "S", "7", "W", " ">> }

RECURSIVE Join(_)
Join(ls) ==
  IF ls = <<>> THEN <<>>
  ELSE IF Len(ls) = 1 THEN ls[1]
  ELSE ls[1] \o <<"\n">> \o Join(Tail(ls))

SampleTexts ==
  {Join(ls) : ls \in UNION {[1..n -> SampleLines] : n \in 0..MaxLines}}

\* lines (each ended by a newline) a child writes to its standard error
ChildLines ==
  { <<"1", "2", "A", "\n">>,
    <<"5", "P", "\n">>,
    <<"T", "0", ".", "5", "S", "2", "W", "\n">> }

ToolchainPaths == {<<>>, <<"t">>}

TestPaths == {<<>>, <<"f">>, <<"d", "/", "f">>}

FlagValues == [t1 : ToolchainPaths, t2 : ToolchainPaths, test : TestPaths]

(***************************************************************************)
(* The initial states.                                                     *)
(***************************************************************************)
ParseIdle ==
  /\ ppc = "call" /\ text = <<>> /\ lines = <<>> /\ idx = 0 /\ res = Nil

MainIdle ==
  /\ pc = "checkTest" /\ run = 0 /\ rt = "idle"
  /\ child = [r \in 1..4 |-> "none"] /\ childOp = NoOp /\ exitStatus = 0
  /\ outPipe = 0 /\ errPipe = <<>> /\ outCount = 0 /\ errCount = 0
  /\ stderrData = <<>> /\ stats = <<Nil, Nil>>
  /\ stdout = <<>> /\ errlog = <<>> /\ exitCode = -1
  /\ spawned = <<>> /\ fileReads = 0
  /\ eof = [out |-> FALSE, err |-> FALSE]
  /\ waited = FALSE /\ readFailed = FALSE /\ failedRun = 0
  /\ overlap = FALSE /\ passText = <<>> /\ firstAsm = 0

InitParse ==
  /\ ppc = "call" /\ text \in SampleTexts
  /\ lines = <<>> /\ idx = 0 /\ res = Nil
  /\ MainIdle /\ flags = [t1 |-> <<>>, t2 |-> <<>>, test |-> <<>>]

Init == ParseIdle /\ MainIdle /\ flags \in FlagValues

(***************************************************************************)
(* parseTestOutput, one loop iteration per step.                           *)
(***************************************************************************)
ParseCall ==
  /\ ppc = "call"
  /\ res' = NewStats
  /\ lines' = Split(text)
  /\ idx' = 1
  /\ ppc' = "loop"
  /\ UNCHANGED <<text, mvars>>

ParseIter ==
  /\ ppc = "loop" /\ idx <= Len(lines)
  /\ res' = ParseLine(res, lines[idx])
  /\ idx' = idx + 1
  /\ UNCHANGED <<ppc, text, lines, mvars>>

ParseReturn ==
  /\ ppc = "loop" /\ idx > Len(lines)
  /\ ppc' = "returned"
  /\ UNCHANGED <<text, lines, idx, res, mvars>>

NextParse == ParseCall \/ ParseIter \/ ParseReturn

SpecParse == InitParse /\ [][NextParse]_vars

(***************************************************************************)
(* main, runBoth, runAndParse and runTest, with the child process and its  *)
(* two pipes.  A run is one call of runTest: runs 1 and 2 are the first    *)
(* runBoth (toolchains 1 and 2), runs 3 and 4 the second.                  *)
(***************************************************************************)
Running == exitCode = -1

\* the toolchain runBoth hands to the run: t1 first, then t2
Toolchain(r) == IF r % 2 = 1 THEN 1 ELSE 2

\* main with a single call of runBoth, whose result is printed
AfterRunBothOnce(r) == "printStats"

\* main after a runBoth returned: the first result goes to _, the second
\* one is printed
AfterRunBoth(r) == IF r = 2 THEN "runBoth" ELSE "printStats"

\* checkArg with the os.Exit(1) left out: main goes on after the message
checkArgNoExit(name, cond, next) ==
  IF cond
  THEN pc' = next /\ UNCHANGED <<errlog, exitCode>>
  ELSE /\ errlog' = errlog \o <<[kind |-> "missing", name |-> name],
                                [kind |-> "defaults"]>>
       /\ pc' = next
       /\ UNCHANGED exitCode

\* checkArg(name, cond); `next` is where main goes on when it returns
checkArg(name, cond, next) ==
  IF cond
  THEN pc' = next /\ UNCHANGED <<errlog, exitCode>>
  ELSE /\ errlog' = errlog \o <<[kind |-> "missing", name |-> name],
                                [kind |-> "defaults"]>>
       /\ exitCode' = 1
       /\ pc' = "exit"

\* the three calls of checkArg in main, in their order
CheckArgs ==
  /\ Running
  /\ \/ pc = "checkTest" /\ checkArg("-test", flags.test # <<>>, "checkT1")
     \/ pc = "checkT1" /\ checkArg("-t1", flags.t1 # <<>>, "checkT2")
     \/ pc = "checkT2" /\ checkArg("-t2", flags.t2 # <<>>, "banner")
  /\ UNCHANGED <<pvars, flags, run, rt, child, childOp, exitStatus, outPipe,
                 errPipe, outCount, errCount, stderrData, stats, stdout,
                 spawned, fileReads, eof, waited, readFailed, failedRun,
                 overlap, passText, firstAsm>>

\* the state at the entry of runTest for run r
EnterRunTest(r) ==
  /\ run' = r
  /\ rt' = "ReadFile"
  /\ childOp' = NoOp
  /\ outPipe' = 0 /\ errPipe' = <<>>
  /\ outCount' = 0 /\ errCount' = 0
  /\ stderrData' = <<>>
  /\ eof' = [out |-> FALSE, err |-> FALSE]
  /\ waited' = FALSE /\ readFailed' = FALSE

\* fmt.Printf("Running test: %s\n", *test), then the first runBoth
Banner ==
  /\ Running /\ pc = "banner"
  /\ stdout' = stdout \o <<"R">> \o flags.test \o <<"\n">>
  /\ pc' = "runBoth"
  /\ UNCHANGED <<pvars, flags, run, rt, child, childOp, exitStatus, outPipe,
                 errPipe, outCount, errCount, stderrData, stats, errlog,
                 exitCode, spawned, fileReads, eof, waited, readFailed,
                 failedRun, overlap, passText, firstAsm>>

\* runBoth is called: its result array is fresh, runAndParse(t1, test)
RunBothCall ==
  /\ Running /\ pc = "runBoth"
  /\ pc' = "runTest"
  /\ stats' = <<Nil, Nil>>
  /\ passText' = <<>>
  /\ EnterRunTest(run + 1)
  /\ UNCHANGED <<pvars, flags, child, exitStatus, stdout, errlog, exitCode,
                 spawned, fileReads, failedRun, overlap, firstAsm>>

\* the error is logged without ending the program, and runTest is tried again
FatalRetry(op) ==
  /\ errlog' = Append(errlog, [kind |-> "fatal", tc |-> Toolchain(run),
                               op |-> op])
  /\ rt' = "ReadFile"
  /\ failedRun' = run
  /\ UNCHANGED <<pc, exitCode>>

\* runTest returns err # nil: runAndParse returns it, runBoth's log.Fatalf
\* reports the toolchain and exits with status 1
Fatal(op) ==
  /\ errlog' = Append(errlog, [kind |-> "fatal", tc |-> Toolchain(run),
                               op |-> op])
  /\ exitCode' = 1
  /\ pc' = "exit"
  /\ rt' = "idle"
  /\ failedRun' = run

\* data, err = ioutil.ReadFile(test)
ReadFile ==
  /\ Running /\ pc = "runTest" /\ rt = "ReadFile"
  /\ fileReads' = fileReads + 1
  /\ \/ /\ rt' = "StderrPipe"
        /\ UNCHANGED <<pc, errlog, exitCode, failedRun>>
     \/ Fatal("ReadFile")
  /\ UNCHANGED <<pvars, flags, run, child, childOp, exitStatus, outPipe,
                 errPipe, outCount, errCount, stderrData, stats, stdout,
                 spawned, eof, waited, readFailed, overlap, passText, firstAsm>>

\* errPipe, err = cmd.StderrPipe(); outPipe, err = cmd.StdoutPipe()
MakePipe ==
  /\ Running /\ pc = "runTest" /\ rt \in {"StderrPipe", "StdoutPipe"}
  /\ \/ /\ rt' = IF rt = "StderrPipe" THEN "StdoutPipe" ELSE "Start"
        /\ UNCHANGED <<pc, errlog, exitCode, failedRun>>
     \/ Fatal(rt)
  /\ UNCHANGED <<pvars, flags, run, child, childOp, exitStatus, outPipe,
                 errPipe, outCount, errCount, stderrData, stats, stdout,
                 spawned, fileReads, eof, waited, readFailed, overlap,
                 passText, firstAsm>>

\* cmd.Wait called right after cmd.Start, before the pipes are drained
StartOkThenWait ==
  /\ rt' = "Wait"
  /\ child' = [child EXCEPT ![run] = "running"]
  /\ spawned' = Append(spawned, Toolchain(run))
  /\ overlap' = (overlap \/ \E r \in 1..4 : child[r] = "running")
  /\ UNCHANGED <<pc, errlog, exitCode, failedRun>>

\* cmd.Start succeeded: the child runs, runTest goes on to drain stdout
StartOk ==
  /\ rt' = "ReadAllOut"
  /\ child' = [child EXCEPT ![run] = "running"]
  /\ spawned' = Append(spawned, Toolchain(run))
  /\ overlap' = (overlap \/ \E r \in 1..4 : child[r] = "running")
  /\ UNCHANGED <<pc, errlog, exitCode, failedRun>>

\* err = cmd.Start()
Start ==
  /\ Running /\ pc = "runTest" /\ rt = "Start"
  /\ \/ StartOk
     \/ Fatal("cmd.Start") /\ UNCHANGED <<child, spawned, overlap>>
  /\ UNCHANGED <<pvars, flags, run, childOp, exitStatus, outPipe, errPipe,
                 outCount, errCount, stderrData, stats, stdout, fileReads,
                 eof, waited, readFailed, passText, firstAsm>>

ChildRunning == run > 0 /\ child[run] = "running"

\* the child calls write on its stdout or stderr
ChildWrite ==
  /\ Running /\ ChildRunning /\ childOp = NoOp
  /\ \/ /\ outCount < MaxOut
        /\ childOp' = [fd |-> "out", data |-> <<"x">>]
     \/ /\ errCount < MaxErr
        /\ \E l \in ChildLines : childOp' = [fd |-> "err", data |-> l]
  /\ UNCHANGED <<pvars, flags, pc, run, rt, child, exitStatus, outPipe,
                 errPipe, outCount, errCount, stderrData, stats, stdout,
                 errlog, exitCode, spawned, fileReads, eof, waited,
                 readFailed, failedRun, overlap, passText, firstAsm>>

\* the write returns once the pipe has room for the chunk
ChildWriteDone ==
  /\ Running /\ ChildRunning /\ childOp # NoOp
  /\ \/ /\ childOp.fd = "out" /\ outPipe < PipeCap
        /\ outPipe' = outPipe + 1 /\ outCount' = outCount + 1
        /\ UNCHANGED <<errPipe, errCount>>
     \/ /\ childOp.fd = "err" /\ Len(errPipe) < PipeCap
        /\ errPipe' = Append(errPipe, childOp.data)
        /\ errCount' = errCount + 1
        /\ UNCHANGED <<outPipe, outCount>>
  /\ childOp' = NoOp
  /\ UNCHANGED <<pvars, flags, pc, run, rt, child, exitStatus, stderrData,
                 stats, stdout, errlog, exitCode, spawned, fileReads, eof,
                 waited, readFailed, failedRun, overlap, passText, firstAsm>>

\* the child exits, which closes its ends of both pipes
ChildExit ==
  /\ Running /\ ChildRunning /\ childOp = NoOp
  /\ \E st \in {0, 1} : exitStatus' = st
  /\ child' = [child EXCEPT ![run] = "exited"]
  /\ UNCHANGED <<pvars, flags, pc, run, rt, childOp, outPipe, errPipe,
                 outCount, errCount, stderrData, stats, stdout, errlog,
                 exitCode, spawned, fileReads, eof, waited, readFailed,
                 failedRun, overlap, passText, firstAsm>>

RECURSIVE Concat(_)
Concat(ss) == IF ss = <<>> THEN <<>> ELSE Head(ss) \o Concat(Tail(ss))

\* ioutil.ReadAll(outPipe): a read returns what the pipe holds, reports
\* end-of-stream once the pipe is empty and closed, or fails; it blocks
\* while the pipe is empty and open
ReadAllOut ==
  /\ Running /\ pc = "runTest" /\ rt = "ReadAllOut"
  /\ outPipe > 0 \/ child[run] = "exited"
  /\ \/ /\ outPipe > 0
        /\ outPipe' = 0
        /\ UNCHANGED <<pc, rt, eof, readFailed, errlog, exitCode, failedRun>>
     \/ /\ outPipe = 0
        /\ eof' = [eof EXCEPT !.out = TRUE]
        /\ rt' = "ReadAllErr"
        /\ UNCHANGED <<pc, outPipe, readFailed, errlog, exitCode, failedRun>>
     \/ /\ Fatal("ioutil.ReadAll(outPipe)")
        /\ readFailed' = TRUE
        /\ UNCHANGED <<outPipe, eof>>
  /\ UNCHANGED <<pvars, flags, run, child, childOp, exitStatus, errPipe,
                 outCount, errCount, stderrData, stats, stdout, spawned,
                 fileReads, waited, overlap, passText, firstAsm>>

\* stderrData, err = ioutil.ReadAll(errPipe)
ReadAllErr ==
  /\ Running /\ pc = "runTest" /\ rt = "ReadAllErr"
  /\ errPipe # <<>> \/ child[run] = "exited"
  /\ \/ /\ errPipe # <<>>
        /\ stderrData' = stderrData \o Concat(errPipe)
        /\ errPipe' = <<>>
        /\ UNCHANGED <<pc, rt, eof, readFailed, errlog, exitCode, failedRun>>
     \/ /\ errPipe = <<>>
        /\ eof' = [eof EXCEPT !.err = TRUE]
        /\ rt' = "Wait"
        /\ UNCHANGED <<pc, errPipe, stderrData, readFailed, errlog, exitCode,
                       failedRun>>
     \/ /\ Fatal("ioutil.ReadAll(errPipe)")
        /\ readFailed' = TRUE
        /\ UNCHANGED <<errPipe, stderrData, eof>>
  /\ UNCHANGED <<pvars, flags, run, child, childOp, exitStatus, outPipe,
                 outCount, errCount, stats, stdout, spawned, fileReads,
                 waited, overlap, passText, firstAsm>>

\* err = cmd.Wait(): returns when the child has exited; a non-zero exit
\* status, or a failure to feed the child's stdin, is an error
Wait ==
  /\ Running /\ pc = "runTest" /\ rt = "Wait"
  /\ child[run] = "exited"
  /\ waited' = TRUE
  /\ \/ /\ exitStatus = 0
        /\ rt' = "Return"
        /\ UNCHANGED <<pc, errlog, exitCode, failedRun>>
     \/ Fatal("cmd.Wait")
  /\ UNCHANGED <<pvars, flags, run, child, childOp, exitStatus, outPipe,
                 errPipe, outCount, errCount, stderrData, stats, stdout,
                 spawned, fileReads, eof, readFailed, overlap, passText, firstAsm>>

\* runTest returns string(stderrData): runAndParse parses it, runBoth
\* stores the record and goes on with t2 or returns to main
RunTestReturn ==
  /\ Running /\ pc = "runTest" /\ rt = "Return"
  /\ stats' = [stats EXCEPT ![Toolchain(run)] = parseTestOutput(stderrData)]
  /\ passText' = Append(passText, [run |-> run, stderr |-> stderrData])
  /\ firstAsm' = IF run = 2 THEN stats[1].AsmInstrs ELSE firstAsm
  /\ IF Toolchain(run) = 1
     THEN EnterRunTest(run + 1) /\ UNCHANGED pc
     ELSE /\ pc' = AfterRunBoth(run)
          /\ rt' = "idle"
          /\ UNCHANGED <<run, childOp, outPipe, errPipe, outCount, errCount,
                         stderrData, eof, waited, readFailed>>
  /\ UNCHANGED <<pvars, flags, child, exitStatus, stdout, errlog, exitCode,
                 spawned, fileReads, failedRun, overlap>>

\* err = printStats(stats), and main returns
PrintStats ==
  /\ Running /\ pc = "printStats"
  /\ stdout' = stdout \o printStats(flags.test, stats)
  /\ exitCode' = 0
  /\ pc' = "exit"
  /\ UNCHANGED <<pvars, flags, run, rt, child, childOp, exitStatus, outPipe,
                 errPipe, outCount, errCount, stderrData, stats, errlog,
                 spawned, fileReads, eof, waited, readFailed, failedRun,
                 overlap, passText, firstAsm>>

Next ==
  \/ CheckArgs \/ Banner \/ RunBothCall
  \/ ReadFile \/ MakePipe \/ Start \/ ReadAllOut \/ ReadAllErr \/ Wait
  \/ RunTestReturn
  \/ ChildWrite \/ ChildWriteDone \/ ChildExit
  \/ PrintStats

Spec == Init /\ [][Next]_vars

(***************************************************************************)
(* C1: runTest never deadlocks with its child: the child is never blocked   *)
(* in a write to a full pipe while runTest is blocked reading the other    *)
(* stream (in such a state neither can ever take a step again, and         *)
(* runTest does not return).                                               *)
(***************************************************************************)
RunnerBlockedOnStdout ==
  /\ Running /\ pc = "runTest" /\ rt = "ReadAllOut"
  /\ outPipe = 0 /\ child[run] = "running"

ChildBlockedOnStderr ==
  /\ run > 0 /\ child[run] = "running"
  /\ childOp.fd = "err" /\ Len(errPipe) >= PipeCap

C1_RunTestNeverDeadlocks == ~(RunnerBlockedOnStdout /\ ChildBlockedOnStderr)

(***************************************************************************)
(* C2: cmd.Wait is called only for a started child whose standard output   *)
(* and standard error have both been read to end-of-stream; when a read of *)
(* either stream fails, runTest returns the error without calling Wait.    *)
(***************************************************************************)
C2_WaitAfterBothStreamsRead ==
  /\ waited => child[run] # "none" /\ eof.out /\ eof.err
  /\ readFailed => ~waited /\ failedRun = run /\ rt = "idle"

C2_Witness ==
  /\ waited /\ eof.out /\ eof.err
  /\ outCount > 0 /\ errCount > 1

(***************************************************************************)
(* The comparison record of two Stats: the base name of the test file and  *)
(* the four fields of toolchain 1, then of toolchain 2, separated by tabs  *)
(* and ended by a newline.                                                 *)
(***************************************************************************)
RECURSIVE JoinTab(_)
JoinTab(fs) ==
  IF Len(fs) = 1 THEN fs[1] ELSE fs[1] \o <<"\t">> \o JoinTab(Tail(fs))

Fields(st) ==
  <<FormatInt(st.AsmInstrs), FormatInt(st.StackSpace),
    FormatFloat(st.Seconds), FormatFloat(st.WallSeconds)>>

Record(s1, s2) ==
  JoinTab(<<Base(flags.test)>> \o Fields(s1) \o Fields(s2)) \o <<"\n">>

BannerLine == <<"R">> \o flags.test \o <<"\n">>

Succeeded == exitCode = 0

(***************************************************************************)
(* C4 as stated: in a run with all three flags set in which every runTest  *)
(* succeeds, standard output holds the comparison record and nothing else. *)
(***************************************************************************)
C4_OnlyTheRecord ==
  Succeeded => stdout = Record(stats[1], stats[2])

(***************************************************************************)
(* C4 amended: in such a run standard output holds two lines and nothing   *)
(* else: first "Running test: <test path>", then the comparison record.    *)
(***************************************************************************)
C4_BannerThenRecord ==
  Succeeded =>
    /\ flags.t1 # <<>> /\ flags.t2 # <<>> /\ flags.test # <<>>
    /\ stdout = BannerLine \o Record(stats[1], stats[2])
    /\ Len(Split(stdout)) = 3

C4_Witness ==
  /\ Succeeded
  /\ stats[1].AsmInstrs = 12 /\ stats[1].Seconds = Zero
  /\ stats[2].AsmInstrs = 0 /\ stats[2].Seconds = <<5, 1>>
  /\ stats[2].StackSpace = 5
  /\ flags.test = <<"d", "/", "f">>

(***************************************************************************)
(* C5: when -t1, -t2 or -test is missing the program never gets past the   *)
(* checks: no child is spawned and the test file is not read; it exits     *)
(* with a non-zero status after a message that names a missing flag.       *)
(***************************************************************************)
FlagNamed(name) ==
  CASE name = "-test" -> flags.test
    [] name = "-t1" -> flags.t1
    [] name = "-t2" -> flags.t2

MissingFlag == flags.test = <<>> \/ flags.t1 = <<>> \/ flags.t2 = <<>>

C5_MissingFlagRunsNothing ==
  MissingFlag =>
    /\ spawned = <<>> /\ fileReads = 0 /\ run = 0 /\ stdout = <<>>
    /\ pc \in {"checkTest", "checkT1", "checkT2", "exit"}
    /\ pc # "exit" => ENABLED CheckArgs
    /\ pc = "exit" =>
         /\ exitCode = 1
         /\ Len(errlog) = 2
         /\ errlog[1].kind = "missing"
         /\ FlagNamed(errlog[1].name) = <<>>
         /\ errlog[2].kind = "defaults"

C5_Witness ==
  /\ pc = "exit" /\ exitCode = 1
  /\ flags.t1 # <<>> /\ flags.test # <<>> /\ flags.t2 = <<>>
  /\ errlog[1] = [kind |-> "missing", name |-> "-t2"]

(***************************************************************************)
(* C6: once a call of runTest has failed the program has ended with a      *)
(* non-zero status: no later run was begun (no file read, no child         *)
(* started after the failing run) and standard output holds no comparison  *)
(* line.                                                                   *)
(***************************************************************************)
C6_RunnerFailureIsFatal ==
  failedRun # 0 =>
    /\ exitCode = 1 /\ pc = "exit"
    /\ run = failedRun
    /\ fileReads = failedRun
    /\ Len(spawned) \in {failedRun - 1, failedRun}
    /\ stdout = BannerLine
    /\ errlog = <<[kind |-> "fatal", tc |-> Toolchain(failedRun),
                   op |-> errlog[1].op]>>

C6_Witness ==
  /\ failedRun = 3
  /\ errlog[1].op = "cmd.Wait"
  /\ exitStatus = 1

(***************************************************************************)
(* C8: a successful run started four children one after another, for       *)
(* toolchains 1, 2, 1, 2, each one gone before the next was started, and   *)
(* the record it printed is made of the Stats of the third and fourth run  *)
(* (the second runBoth) alone.                                             *)
(***************************************************************************)
C8_TwoPassesSecondPrinted ==
  Succeeded =>
    /\ spawned = <<1, 2, 1, 2>>
    /\ ~overlap
    /\ \A r \in 1..4 : child[r] = "exited"
    /\ Len(passText) = 2
    /\ passText[1].run = 3 /\ passText[2].run = 4
    /\ stdout = BannerLine \o Record(parseTestOutput(passText[1].stderr),
                                     parseTestOutput(passText[2].stderr))

\* the first runBoth gave AsmInstrs = 12 for toolchain 1, the printed one 0
C8_Witness ==
  /\ Succeeded
  /\ firstAsm = 12
  /\ stats[1].AsmInstrs = 0
  /\ spawned = <<1, 2, 1, 2>>

(***************************************************************************)
(* What a (trimmed) line holds for each pattern.                           *)
(***************************************************************************)
AsmM(l) == asmInstrsRegexp(l) # <<>>
AsmOk(l) == AsmM(l) /\ ~Atoi(asmInstrsRegexp(l)[2]).err
AsmVal(l) == Atoi(asmInstrsRegexp(l)[2]).val
AsmFail(l) == AsmM(l) /\ ~AsmOk(l)

PeiM(l) == stackSpaceRegexp(l) # <<>>
PeiOk(l) == PeiM(l) /\ ~Atoi(stackSpaceRegexp(l)[2]).err
PeiVal(l) == Atoi(stackSpaceRegexp(l)[2]).val
PeiFail(l) == PeiM(l) /\ ~PeiOk(l)

ExecM(l) == execTimeRegexp(l) # <<>>
SecOk(l) == ExecM(l) /\ ~Atof64(execTimeRegexp(l)[2]).err
SecVal(l) == Atof64(execTimeRegexp(l)[2]).val
SecFail(l) == ExecM(l) /\ ~SecOk(l)
WallOk(l) == ExecM(l) /\ ~Atof64(execTimeRegexp(l)[3]).err
WallVal(l) == Atof64(execTimeRegexp(l)[3]).val
WallFail(l) == ExecM(l) /\ ~WallOk(l)

\* every number the patterns capture on the line parses
LineOk(l) == ~AsmFail(l) /\ ~PeiFail(l) /\ ~SecFail(l) /\ ~WallFail(l)

Line(i) == TrimSpace(lines[i])

AsmLines == {i \in 1..Len(lines) : AsmM(Line(i))}
PeiLines == {i \in 1..Len(lines) : PeiM(Line(i))}
ExecLines == {i \in 1..Len(lines) : ExecM(Line(i))}

Last(S) == CHOOSE m \in S : \A y \in S : y <= m

\* the step is one loop iteration of parseTestOutput
IsIter == ppc = "loop" /\ idx <= Len(lines) /\ idx' = idx + 1

(***************************************************************************)
(* C3: a line that matches a pattern's shape but whose captured number     *)
(* fails to parse leaves the pattern's field at the value it had before    *)
(* that line.                                                              *)
(***************************************************************************)
C3_FailedParseKeepsField ==
  [][IsIter =>
       LET l == Line(idx)
       IN  /\ AsmFail(l) => res'.AsmInstrs = res.AsmInstrs
           /\ PeiFail(l) => res'.StackSpace = res.StackSpace
           /\ SecFail(l) => res'.Seconds = res.Seconds
           /\ WallFail(l) => res'.WallSeconds = res.WallSeconds]_vars

(***************************************************************************)
(* C7: when each pattern matches at most one line and every captured       *)
(* number is well-formed, each field of the returned record is the number  *)
(* captured on its pattern's line, and zero when no line matches.          *)
(***************************************************************************)
C7_FieldsAreCapturedNumbers ==
  (/\ ppc = "returned"
   /\ Cardinality(AsmLines) <= 1
   /\ Cardinality(PeiLines) <= 1
   /\ Cardinality(ExecLines) <= 1
   /\ \A i \in 1..Len(lines) : LineOk(Line(i)))
  => /\ res.AsmInstrs =
          IF AsmLines = {} THEN 0 ELSE AsmVal(Line(Last(AsmLines)))
     /\ res.StackSpace =
          IF PeiLines = {} THEN 0 ELSE PeiVal(Line(Last(PeiLines)))
     /\ res.Seconds =
          IF ExecLines = {} THEN Zero ELSE SecVal(Line(Last(ExecLines)))
     /\ res.WallSeconds =
          IF ExecLines = {} THEN Zero ELSE WallVal(Line(Last(ExecLines)))

C7_Witness ==
  /\ ppc = "returned"
  /\ Cardinality(AsmLines) = 1
  /\ Cardinality(PeiLines) = 1
  /\ Cardinality(ExecLines) = 1
  /\ AsmLines # PeiLines /\ PeiLines # ExecLines /\ AsmLines # ExecLines
  /\ \A i \in 1..Len(lines) : LineOk(Line(i))
  /\ res = [AsmInstrs |-> 12, StackSpace |-> 56,
            Seconds |-> <<5, 1>>, WallSeconds |-> <<15, 1>>]

(***************************************************************************)
(* C9 as stated: on every line each pattern that matches with a            *)
(* well-formed number populates its field, whatever the other patterns     *)
(* (or, for WallSeconds, the Seconds capture) did on that line.            *)
(***************************************************************************)
C9_PatternsIndependent ==
  [][IsIter =>
       LET l == Line(idx)
       IN  /\ AsmOk(l) => res'.AsmInstrs = AsmVal(l)
           /\ PeiOk(l) => res'.StackSpace = PeiVal(l)
           /\ SecOk(l) => res'.Seconds = SecVal(l)
           /\ WallOk(l) => res'.WallSeconds = WallVal(l)]_vars

(***************************************************************************)
(* C9 amended: the patterns are applied to a line in the order AsmInstrs,  *)
(* StackSpace, Seconds, WallSeconds.  A pattern that does not match or     *)
(* that matches with a well-formed number never prevents the later ones    *)
(* from populating their fields; the first capture that fails to parse     *)
(* ends the handling of the line, and no later field is touched by it.     *)
(***************************************************************************)
C9_PatternsInOrderUntilFailure ==
  [][IsIter =>
       LET l == Line(idx)
       IN  /\ AsmOk(l) => res'.AsmInstrs = AsmVal(l)
           /\ ~AsmFail(l) /\ PeiOk(l) => res'.StackSpace = PeiVal(l)
           /\ ~AsmFail(l) /\ ~PeiFail(l) /\ SecOk(l)
                => res'.Seconds = SecVal(l)
           /\ ~AsmFail(l) /\ ~PeiFail(l) /\ SecOk(l) /\ WallOk(l)
                => res'.WallSeconds = WallVal(l)
           /\ AsmFail(l) => res'.StackSpace = res.StackSpace
           /\ AsmFail(l) \/ PeiFail(l)
                => /\ res'.Seconds = res.Seconds
                   /\ res'.WallSeconds = res.WallSeconds
           /\ SecFail(l) => res'.WallSeconds = res.WallSeconds]_vars

\* a line whose AsmInstrs capture failed was left before its well-formed
\* StackSpace capture was looked at
C9_Witness ==
  /\ ppc = "loop" /\ idx > 1
  /\ AsmFail(Line(idx - 1)) /\ PeiOk(Line(idx - 1))
  /\ res.StackSpace # PeiVal(Line(idx - 1))

(***************************************************************************)
(* C10: when several lines match one pattern, all of them with             *)
(* well-formed numbers, the pattern's field of the returned record holds   *)
(* the value of the last of these lines.                                   *)
(***************************************************************************)
Several(S) == Cardinality(S) >= 2 /\ \A i \in S : LineOk(Line(i))

====
